---- MODULE Spec2Model ----
(***************************************************************************)
(* SnipSnap (src/main.go): a terminal snippet manager.                     *)
(*                                                                         *)
(* The model has two parts:                                                *)
(*   - the persistence store: saveSnippets, loadSnippets and generateID,   *)
(*     with the line format, strings.Split, strconv.Atoi, bufio.Scanner    *)
(*     and base64 computed byte by byte;                                   *)
(*   - the application state machine: model.Update, one step per message.  *)
(*                                                                         *)
(* A Go string is a sequence of byte values (97 is 'a', 124 is '|',        *)
(* 10 is the newline).                                                     *)
(*                                                                         *)
(* Spec is the session with text typed, up to MaxSaves writes of the       *)
(* store; SpecStore is the session in which nothing is typed, over more    *)
(* writes; SpecCodec applies saveSnippets, loadSnippets and generateID to  *)
(* given collections; SpecLoad is the start of a session with a given      *)
(* store.                                                                  *)
(***************************************************************************)
EXTENDS Integers, Sequences, FiniteSets, TLC

\* ------------------------------------------------------------------------
\* Bounds of the model
\* ------------------------------------------------------------------------

\* longest text the single-line input may hold (the widget has no limit)
MaxLen == 1

\* longest text the code editor may hold (ta.CharLimit = 0: no limit)
MaxCode == 1

\* largest collection an add may produce
MaxSnippets == 2

\* number of writes of the store (calls of saveSnippets) in one session
MaxSaves == 1

\* number of writes of the store in one session in which nothing is typed
MaxStoreSaves == 2

\* longest name, language and code of the snippets given to the codec
MaxField == 1

\* largest collection given to the codec
MaxGiven == 2

\* number of lines of a given store
MaxLines == 2

\* ------------------------------------------------------------------------
\* Bytes and strings
\* ------------------------------------------------------------------------

\* the separator of the record fields, "|||"
Delim == <<124, 124, 124>>

\* "\n", which ends a record
Newline == <<10>>

\* the bytes of the names bubbletea gives the keys (tea.KeyMsg.String())
StrQ == <<113>>
StrUp == <<117, 112>>
StrDown == <<100, 111, 119, 110>>
StrEsc == <<101, 115, 99>>
StrEnter == <<101, 110, 116, 101, 114>>
StrCtrlS == <<99, 116, 114, 108, 43, 115>>
StrCtrlC == <<99, 116, 114, 108, 43, 99>>
StrBackspace == <<98, 97, 99, 107, 115, 112, 97, 99, 101>>

\* the strings over the bytes of alphabet, of length at most n
RECURSIVE StringsUpTo(_, _)
StringsUpTo(alphabet, n) ==
    IF n = 0 THEN {<< >>}
    ELSE LET shorter == StringsUpTo(alphabet, n - 1)
         IN  shorter \cup {Append(s, c) : s \in shorter, c \in alphabet}

\* s[from..], the Go slice s[from-1:]
Drop(s, from) == SubSeq(s, from, Len(s))

\* strings.HasPrefix(s[at-1:], pre)
HasPrefixAt(s, at, pre) ==
    /\ at + Len(pre) - 1 <= Len(s)
    /\ SubSeq(s, at, at + Len(pre) - 1) = pre

\* strings.Index(s, sep) + 1, or 0 when sep does not occur in s
IndexOf(s, sep) ==
    LET hits == {i \in 1..Len(s) : HasPrefixAt(s, i, sep)}
    IN  IF hits = {} THEN 0 ELSE CHOOSE i \in hits : \A j \in hits : i <= j

\* strings.Split(s, sep) for a non-empty sep: the leftmost occurrences of sep,
\* not overlapping, cut s into len(occurrences)+1 parts
RECURSIVE Split(_, _)
Split(s, sep) ==
    LET i == IndexOf(s, sep)
    IN  IF i = 0 THEN <<s>>
        ELSE <<SubSeq(s, 1, i - 1)>> \o Split(Drop(s, i + Len(sep)), sep)

\* bufio.MaxScanTokenSize, the size the buffer of a Scanner made by
\* bufio.NewScanner grows to: 64 * 1024 bytes
MaxScanTokenSize == 65536

\* the tokens of bufio.Scanner with the default split function ScanLines:
\* the text between newlines, a trailing carriage return dropped, and no
\* token for the empty text after the last newline
DropCR(line) ==
    IF Len(line) > 0 /\ line[Len(line)] = 13
    THEN SubSeq(line, 1, Len(line) - 1)
    ELSE line

\* for scanner.Scan() { .. scanner.Text() .. }: Scan returns false at the end
\* of the data and, with ErrTooLong, when the buffer is full and holds no
\* newline; the loop ends in both cases and scanner.Err() is not looked at
RECURSIVE ScanLines(_)
ScanLines(data) ==
    IF Len(data) = 0 THEN << >>
    ELSE LET i == IndexOf(data, Newline)
         IN  IF (IF i = 0 THEN Len(data) ELSE i - 1) >= MaxScanTokenSize
             THEN << >>
             ELSE IF i = 0 THEN <<DropCR(data)>>
             ELSE <<DropCR(SubSeq(data, 1, i - 1))>> \o ScanLines(Drop(data, i + 1))

\* ------------------------------------------------------------------------
\* strconv: "%d" and Atoi
\* ------------------------------------------------------------------------

IsDigit(c) == c >= 48 /\ c <= 57

RECURSIVE Digits(_)
Digits(n) ==
    IF n < 10 THEN <<48 + n>> ELSE Append(Digits(n \div 10), 48 + (n % 10))

\* fmt's %d of an int
FormatInt(n) == IF n < 0 THEN <<45>> \o Digits(0 - n) ELSE Digits(n)

RECURSIVE DigitsValue(_)
DigitsValue(ds) ==
    IF Len(ds) = 0 THEN 0
    ELSE 10 * DigitsValue(SubSeq(ds, 1, Len(ds) - 1)) + (ds[Len(ds)] - 48)

\* strconv.Atoi with the error dropped (id, _ := strconv.Atoi(..)): an
\* optional sign and then one or more decimal digits; anything else is a
\* syntax error, whose value is 0
Atoi(s) ==
    LET signed == Len(s) > 0 /\ s[1] \in {43, 45}
        ds == IF signed THEN Drop(s, 2) ELSE s
    IN  IF Len(ds) = 0 \/ \E i \in 1..Len(ds) : ~IsDigit(ds[i]) THEN 0
        ELSE IF signed /\ s[1] = 45 THEN 0 - DigitsValue(ds)
        ELSE DigitsValue(ds)

\* ------------------------------------------------------------------------
\* encoding/base64, StdEncoding
\* ------------------------------------------------------------------------

\* the byte that stands for the 6-bit value v: A-Z, a-z, 0-9, + and /
B64Char(v) ==
    IF v < 26 THEN 65 + v
    ELSE IF v < 52 THEN 97 + (v - 26)
    ELSE IF v < 62 THEN 48 + (v - 52)
    ELSE IF v = 62 THEN 43
    ELSE 47

\* the 6-bit value of the byte c, or -1 when c is not in the alphabet
B64Value(c) ==
    IF c >= 65 /\ c <= 90 THEN c - 65
    ELSE IF c >= 97 /\ c <= 122 THEN c - 97 + 26
    ELSE IF c >= 48 /\ c <= 57 THEN c - 48 + 52
    ELSE IF c = 43 THEN 62
    ELSE IF c = 47 THEN 63
    ELSE -1

\* the padding byte '='
B64Pad == <<61>>

\* base64.StdEncoding.EncodeToString: 3 bytes become 4 characters; a last
\* group of 1 or 2 bytes becomes 2 or 3 characters and padding
RECURSIVE EncodeToString(_)
EncodeToString(src) ==
    IF Len(src) = 0 THEN << >>
    ELSE IF Len(src) = 1 THEN
        <<B64Char(src[1] \div 4), B64Char((src[1] % 4) * 16)>> \o B64Pad \o B64Pad
    ELSE IF Len(src) = 2 THEN
        <<B64Char(src[1] \div 4),
          B64Char((src[1] % 4) * 16 + src[2] \div 16),
          B64Char((src[2] % 16) * 4)>> \o B64Pad
    ELSE
        <<B64Char(src[1] \div 4),
          B64Char((src[1] % 4) * 16 + src[2] \div 16),
          B64Char((src[2] % 16) * 4 + src[3] \div 64),
          B64Char(src[3] % 64)>> \o EncodeToString(Drop(src, 4))

\* base64.StdEncoding.DecodeString with the error dropped
\* (decodedCode, _ := ..): the bytes of the 4-character groups decoded before
\* the first corrupt group; a padded group is the last one
RECURSIVE DecodeString(_)
DecodeString(s) ==
    IF Len(s) < 4 THEN << >>
    ELSE LET v1 == B64Value(s[1])
             v2 == B64Value(s[2])
             v3 == B64Value(s[3])
             v4 == B64Value(s[4])
             b1 == v1 * 4 + v2 \div 16
             b2 == (v2 % 16) * 16 + v3 \div 4
             b3 == (v3 % 4) * 64 + v4
         IN  IF v1 < 0 \/ v2 < 0 THEN << >>
             ELSE IF s[3] = B64Pad[1] THEN
                 IF s[4] = B64Pad[1] THEN <<b1>> ELSE << >>
             ELSE IF v3 < 0 THEN << >>
             ELSE IF s[4] = B64Pad[1] THEN <<b1, b2>>
             ELSE IF v4 < 0 THEN << >>
             ELSE <<b1, b2, b3>> \o DecodeString(Drop(s, 5))

\* ------------------------------------------------------------------------
\* The persistence store
\* ------------------------------------------------------------------------

\* type snippet struct, and its zero value snippet{}
Snippet(id, name, language, code) ==
    [ID |-> id, Name |-> name, Language |-> language, Code |-> code]

EmptySnippet == Snippet(0, << >>, << >>, << >>)

\* the file snippets.txt: absent, or present with its bytes
AbsentFile == [exists |-> FALSE, data |-> << >>]

FileWith(bytes) == [exists |-> TRUE, data |-> bytes]

\* one line of the store: fmt.Fprintf(file, "%d|||%s|||%s|||%s\n", ..) with
\* the code in base64
FormatRecord(s) ==
    FormatInt(s.ID) \o Delim \o s.Name \o Delim \o s.Language \o Delim
        \o EncodeToString(s.Code) \o Newline

RECURSIVE FormatRecords(_)
FormatRecords(snippets) ==
    IF Len(snippets) = 0 THEN << >>
    ELSE FormatRecord(Head(snippets)) \o FormatRecords(Tail(snippets))

\* saveSnippets with a file opened for appending: the old content stays
saveSnippetsAppending(snippets, file, canCreate) ==
    IF ~canCreate THEN file ELSE FileWith(file.data \o FormatRecords(snippets))

\* saveSnippets with a file that is emptied although os.Create failed
saveSnippetsTruncating(snippets, file, canCreate) ==
    IF ~canCreate THEN FileWith(<< >>) ELSE FileWith(FormatRecords(snippets))

\* saveSnippets: os.Create truncates the file and the records are written in
\* the order of the collection; when os.Create fails the file is left alone.
\* canCreate is whether os.Create succeeds.
saveSnippets(snippets, file, canCreate) ==
    IF ~canCreate THEN file ELSE FileWith(FormatRecords(snippets))

\* the snippets of the scanned lines: a line of exactly 4 parts is a record,
\* any other line is skipped
RECURSIVE ParseLines(_)
ParseLines(lines) ==
    IF Len(lines) = 0 THEN << >>
    ELSE LET parts == Split(Head(lines), Delim)
         IN  IF Len(parts) = 4
             THEN <<Snippet(Atoi(parts[1]), parts[2], parts[3],
                            DecodeString(parts[4]))>> \o ParseLines(Tail(lines))
             ELSE ParseLines(Tail(lines))

\* loadSnippets: no snippets when os.Open fails
loadSnippets(file) ==
    IF ~file.exists THEN << >> ELSE ParseLines(ScanLines(file.data))

\* generateID: one more than the largest id, the search starting from 0
RECURSIVE MaxID(_, _)
MaxID(snippets, maxID) ==
    IF Len(snippets) = 0 THEN maxID
    ELSE MaxID(Tail(snippets),
               IF Head(snippets).ID > maxID THEN Head(snippets).ID ELSE maxID)

\* generateID that takes the last id for the largest
generateIDFromLast(snippets) ==
    IF Len(snippets) = 0 THEN 1 ELSE snippets[Len(snippets)].ID + 1

\* generateID with the search for the maximum id started below 0
generateIDFromMinusOne(snippets) == MaxID(snippets, -1) + 1

\* generateID that counts the snippets
generateIDFromLen(snippets) == Len(snippets) + 1

\* generateID: one more than the largest id found above 0
generateID(snippets) == MaxID(snippets, 0) + 1

\* ------------------------------------------------------------------------
\* Messages
\* ------------------------------------------------------------------------

WindowSizeMsg(w, h) ==
    [kind |-> "WindowSizeMsg", Type |-> "", Runes |-> << >>,
     Width |-> w, Height |-> h]

KeyMsg(type, runes) ==
    [kind |-> "KeyMsg", Type |-> type, Runes |-> runes, Width |-> 0, Height |-> 0]

\* tea.KeyMsg.String(): the runes of a text key, the name of any other key
KeyString(msg) ==
    CASE msg.Type = "KeyRunes" -> msg.Runes
      [] msg.Type = "KeyEsc" -> StrEsc
      [] msg.Type = "KeyEnter" -> StrEnter
      [] msg.Type = "KeyCtrlS" -> StrCtrlS
      [] msg.Type = "KeyCtrlC" -> StrCtrlC
      [] msg.Type = "KeyUp" -> StrUp
      [] msg.Type = "KeyDown" -> StrDown
      [] msg.Type = "KeyBackspace" -> StrBackspace

\* the text keys of the model: 'a', and 'q'
TypedRunes == {<<97>>, StrQ}

\* the terminal sizes of the model
WindowSizes == {<<80, 24>>}

\* ------------------------------------------------------------------------
\* The widgets (bubbles list, textinput and textarea), by what main.go uses
\* ------------------------------------------------------------------------

\* the items of the menu, in order
MenuItems == <<"View Snippets", "Add Snippet", "Delete Snippet", "Quit">>

\* m.list.SelectedItem()
SelectedItem(list) == MenuItems[list.index + 1]

\* m.list.Update(msg): up and down move the cursor, which stops at both ends
listUpdate(list, msg) ==
    IF msg.kind # "KeyMsg" THEN list
    ELSE IF msg.Type = "KeyUp" /\ list.index > 0
        THEN [list EXCEPT !.index = @ - 1]
    ELSE IF msg.Type = "KeyDown" /\ list.index < Len(MenuItems) - 1
        THEN [list EXCEPT !.index = @ + 1]
    ELSE list

\* m.input.Update(msg): a focused input appends the runes typed and drops
\* its last rune on backspace (the cursor is at the end: SetValue puts it
\* there and no key of the model moves it); Enter is not a key of the input
inputUpdate(input, msg) ==
    IF msg.kind # "KeyMsg" \/ ~input.focus THEN input
    ELSE IF msg.Type = "KeyRunes"
        THEN [input EXCEPT !.value = @ \o msg.Runes]
    ELSE IF msg.Type = "KeyBackspace" /\ Len(input.value) > 0
        THEN [input EXCEPT !.value = SubSeq(@, 1, Len(@) - 1)]
    ELSE input

\* m.textarea.Update(msg): a focused editor inserts the runes typed, and a
\* newline on Enter, at its cursor, and deletes the rune before the cursor on
\* backspace. Up and down move the cursor between the lines; the model keeps
\* the text and not the cursor, so `at`, the offset of the cursor in the
\* text, is an input of the step.
InsertAt(text, at, runes) ==
    SubSeq(text, 1, at) \o runes \o SubSeq(text, at + 1, Len(text))

textareaUpdate(textarea, msg, at) ==
    IF msg.kind # "KeyMsg" \/ ~textarea.focus THEN textarea
    ELSE IF msg.Type = "KeyRunes"
        THEN [textarea EXCEPT !.value = InsertAt(@, at, msg.Runes)]
    ELSE IF msg.Type = "KeyEnter"
        THEN [textarea EXCEPT !.value = InsertAt(@, at, Newline)]
    ELSE IF msg.Type = "KeyBackspace" /\ at > 0
        THEN [textarea EXCEPT !.value = SubSeq(@, 1, at - 1) \o SubSeq(@, at + 1, Len(@))]
    ELSE textarea

\* ------------------------------------------------------------------------
\* The application state machine
\* ------------------------------------------------------------------------

\* initialModel(): the collection loaded from the store, and the menu
initialModel(file) ==
    [snippets |-> loadSnippets(file),
     state |-> "menu",
     input |-> [value |-> << >>, placeholder |-> "", focus |-> FALSE],
     textarea |-> [value |-> << >>, focus |-> FALSE],
     currentField |-> 0,
     newSnippet |-> EmptySnippet,
     selectedItem |-> 0,
     list |-> [index |-> 0],
     width |-> 0,
     height |-> 0]

\* resetState that also empties the collection
resetStateAll(m) ==
    [m EXCEPT !.state = "menu",
              !.currentField = 0,
              !.newSnippet = EmptySnippet,
              !.input.value = << >>,
              !.textarea.value = << >>,
              !.input.placeholder = "Name",
              !.snippets = << >>]

\* model.resetState
resetState(m) ==
    [m EXCEPT !.state = "menu",
              !.currentField = 0,
              !.newSnippet = EmptySnippet,
              !.input.value = << >>,
              !.textarea.value = << >>,
              !.input.placeholder = "Name"]

\* the removal with the index taken to count from 1
RemoveAtOffByOne(s, i) == SubSeq(s, 1, i - 1) \o SubSeq(s, i + 1, Len(s))

\* append(s[:i], s[i+1:]...)
RemoveAt(s, i) == SubSeq(s, 1, i) \o SubSeq(s, i + 2, Len(s))

\* what one call of Update gives: the new model, the command returned, the
\* file, whether saveSnippets ran and how ("none", "ok", "failed"), and
\* whether Update returned before the widgets were given the message
Result(m, cmd, file, save, returned) ==
    [m |-> m, cmd |-> cmd, file |-> file, save |-> save, returned |-> returned]

SaveOutcome(canCreate) == IF canCreate THEN "ok" ELSE "failed"

\* case "menu"
UpdateMenu(m, msg, file) ==
    IF msg.Type = "KeyCtrlC" THEN Result(m, "Quit", file, "none", TRUE)
    ELSE IF msg.Type = "KeyEnter" THEN
        CASE SelectedItem(m.list) = "View Snippets" ->
                Result([m EXCEPT !.state = "view"], "nil", file, "none", FALSE)
          [] SelectedItem(m.list) = "Add Snippet" ->
                Result([m EXCEPT !.state = "add",
                                 !.currentField = 0,
                                 !.newSnippet = EmptySnippet,
                                 !.input.placeholder = "Name",
                                 !.input.value = << >>,
                                 !.input.focus = TRUE],
                       "nil", file, "none", FALSE)
          [] SelectedItem(m.list) = "Delete Snippet" ->
                Result([m EXCEPT !.state = "delete", !.selectedItem = 0],
                       "nil", file, "none", FALSE)
          [] SelectedItem(m.list) = "Quit" ->
                Result(m, "Quit", file, "none", TRUE)
    ELSE Result(m, "nil", file, "none", FALSE)

\* the save of the wizard with no check of the step
CanSaveAtAnyStep(m) == m.currentField >= 0

\* the check of the step before the save of the wizard
CanSave(m) == m.currentField = 2

\* case "add"
UpdateAdd(m, msg, file, canCreate) ==
    IF msg.Type = "KeyEnter" THEN
        IF m.currentField = 0 THEN
            Result([m EXCEPT !.newSnippet.Name = m.input.value,
                             !.input.value = << >>,
                             !.input.placeholder = "Language",
                             !.currentField = @ + 1],
                   "nil", file, "none", FALSE)
        ELSE IF m.currentField = 1 THEN
            Result([m EXCEPT !.newSnippet.Language = m.input.value,
                             !.input.value = << >>,
                             !.textarea.focus = TRUE,
                             !.currentField = @ + 1],
                   "nil", file, "none", FALSE)
        ELSE Result(m, "nil", file, "none", FALSE)
    ELSE IF msg.Type = "KeyCtrlS" /\ CanSave(m) THEN
        LET new == [m.newSnippet EXCEPT !.Code = m.textarea.value,
                                        !.ID = generateID(m.snippets)]
            snippets == Append(m.snippets, new)
        IN  Result(resetState([m EXCEPT !.newSnippet = new, !.snippets = snippets]),
                   "nil", saveSnippets(snippets, file, canCreate),
                   SaveOutcome(canCreate), TRUE)
    ELSE Result(m, "nil", file, "none", FALSE)

\* the bounds check with the length of the collection let through
ValidIndexOffByOne(m) == m.selectedItem >= 0 /\ m.selectedItem <= Len(m.snippets)

\* the bounds check of the delete confirm
ValidIndex(m) == m.selectedItem >= 0 /\ m.selectedItem < Len(m.snippets)

\* the guard of the down key with the length of the collection for its last
\* index
CanMoveDownOffByOne(m) == m.selectedItem < Len(m.snippets)

\* the guard of the down key in the delete state
CanMoveDown(m) == m.selectedItem < Len(m.snippets) - 1

\* case "delete"
UpdateDelete(m, msg, file, canCreate) ==
    IF msg.Type = "KeyEnter" THEN
        IF ValidIndex(m) THEN
            LET snippets == RemoveAt(m.snippets, m.selectedItem)
            IN  Result([m EXCEPT !.snippets = snippets,
                                 !.state = "menu",
                                 !.selectedItem = 0],
                       "nil", saveSnippets(snippets, file, canCreate),
                       SaveOutcome(canCreate), FALSE)
        ELSE Result([m EXCEPT !.state = "menu", !.selectedItem = 0],
                    "nil", file, "none", FALSE)
    ELSE IF KeyString(msg) = StrUp /\ m.selectedItem > 0 THEN
        Result([m EXCEPT !.selectedItem = @ - 1], "nil", file, "none", FALSE)
    ELSE IF KeyString(msg) = StrDown /\ CanMoveDown(m) THEN
        Result([m EXCEPT !.selectedItem = @ + 1], "nil", file, "none", FALSE)
    ELSE Result(m, "nil", file, "none", FALSE)

\* switch m.state
UpdateState(m, msg, file, canCreate) ==
    CASE m.state = "menu" -> UpdateMenu(m, msg, file)
      [] m.state = "add" -> UpdateAdd(m, msg, file, canCreate)
      [] m.state = "delete" -> UpdateDelete(m, msg, file, canCreate)
      [] m.state = "view" -> Result(m, "nil", file, "none", FALSE)

\* the end of Update: the message goes to the menu list and, in add, to the
\* input (steps 0 and 1) or to the editor (step 2). The command the widgets
\* return is not followed: the session goes on.
UpdateWidgets(m, msg, at) ==
    LET m1 == [m EXCEPT !.list = listUpdate(@, msg)]
    IN  IF m1.state = "add" THEN
            IF m1.currentField < 2
            THEN [m1 EXCEPT !.input = inputUpdate(@, msg)]
            ELSE [m1 EXCEPT !.textarea = textareaUpdate(@, msg, at)]
        ELSE m1

\* the Esc key handled in view and delete and not in add
EscReturnsNotFromAdd(m, msg) == msg.Type = "KeyEsc" /\ m.state \in {"view", "delete"}

\* the Esc key, handled before the state: back to the menu from any other
\* state
EscReturns(m, msg) == msg.Type = "KeyEsc" /\ m.state # "menu"

\* the 'q' key, handled before the state: quit
QuitKey(m, msg) == KeyString(msg) = StrQ

\* model.Update
Update(m, msg, file, canCreate, at) ==
    IF msg.kind = "WindowSizeMsg" THEN
        Result([m EXCEPT !.width = msg.Width, !.height = msg.Height],
               "nil", file, "none", TRUE)
    ELSE IF EscReturns(m, msg) THEN
        Result(resetState(m), "nil", file, "none", TRUE)
    ELSE IF QuitKey(m, msg) THEN
        Result(m, "Quit", file, "none", TRUE)
    ELSE
        LET r == UpdateState(m, msg, file, canCreate)
        IN  IF r.returned THEN r
            ELSE [r EXCEPT !.m = UpdateWidgets(r.m, msg, at)]

\* ------------------------------------------------------------------------
\* The session: state, initial states, one step per message
\* ------------------------------------------------------------------------

VARIABLES
    m,       \* the model value bubbletea holds (type model)
    file,    \* snippets.txt
    loaded,  \* what the last call of loadSnippets returned
    pc,      \* "run" while the session goes on, "quit" once tea.Quit was
             \* returned; the step reached by the codec (see SpecCodec)
    last,    \* the message Update handled last, the state it was handled
             \* in, and whether saveSnippets ran
    writes   \* the outcomes of the calls of saveSnippets, oldest first

vars == <<m, file, loaded, pc, last, writes>>

NoMsg == [kind |-> "none", Type |-> "", Runes |-> << >>, Width |-> 0, Height |-> 0]

NoLast ==
    [msg |-> NoMsg, state |-> "", currentField |-> 0, selectedItem |-> 0,
     len |-> 0, save |-> "none"]

\* the store files a session may find at startup: none; two records with
\* the ids 1 and 2; two records with the ids 1 and 3, as a session leaves
\* them that deleted the snippet of id 2; two records whose first field is
\* no number and 0
GoodFile ==
    FileWith(FormatRecords(<<Snippet(1, <<97>>, <<97>>, <<97>>),
                             Snippet(2, << >>, <<97>>, <<97, 10>>)>>))

GapFile ==
    FileWith(FormatRecords(<<Snippet(1, <<97>>, <<97>>, <<97>>),
                             Snippet(3, << >>, <<97>>, <<97, 10>>)>>))

BadIDFile ==
    FileWith(<<97>> \o Delim \o <<97>> \o Delim \o <<97>> \o Delim \o Newline
             \o FormatRecord(Snippet(0, <<97>>, << >>, <<10>>)))

InitFiles == {AbsentFile, GoodFile, GapFile, BadIDFile}

Init ==
    /\ file \in InitFiles
    /\ loaded = loadSnippets(file)
    /\ m = initialModel(file)
    /\ pc = "run"
    /\ last = NoLast
    /\ writes = << >>

\* whether Update calls saveSnippets for msg, and so os.Create
Saves(msg) == Update(m, msg, file, TRUE, 0).save # "none"

\* the bounds of the model: the texts, the collection (which an add does
\* not grow beyond the bound) and the number of writes stay within them
WithinBounds(r, maxSaves) ==
    /\ Len(r.m.input.value) <= MaxLen
    /\ Len(r.m.textarea.value) <= MaxCode
    /\ Len(r.m.snippets) <= MaxSnippets \/ Len(r.m.snippets) <= Len(m.snippets)
    /\ r.save # "none" => Len(writes) < maxSaves

\* bubbletea hands msg to Update and keeps the model it returns. The inputs
\* of the step besides msg: whether os.Create succeeds, in a step that
\* saves, and the offset of the cursor in the code editor.
Handle(msg, maxSaves) ==
    /\ pc = "run"
    /\ \E canCreate \in IF Saves(msg) THEN BOOLEAN ELSE {TRUE},
          at \in 0..Len(m.textarea.value) :
        LET r == Update(m, msg, file, canCreate, at)
        IN  /\ WithinBounds(r, maxSaves)
            /\ m' = r.m
            /\ file' = r.file
            /\ pc' = IF r.cmd = "Quit" THEN "quit" ELSE "run"
            /\ last' = [msg |-> msg, state |-> m.state,
                        currentField |-> m.currentField,
                        selectedItem |-> m.selectedItem,
                        len |-> Len(m.snippets), save |-> r.save]
            /\ writes' = IF r.save = "none" THEN writes ELSE Append(writes, r.save)
    /\ UNCHANGED loaded

Esc == KeyMsg("KeyEsc", << >>)
Enter == KeyMsg("KeyEnter", << >>)
CtrlS == KeyMsg("KeyCtrlS", << >>)
CtrlC == KeyMsg("KeyCtrlC", << >>)
Up == KeyMsg("KeyUp", << >>)
Down == KeyMsg("KeyDown", << >>)
Backspace == KeyMsg("KeyBackspace", << >>)
Runes(runes) == KeyMsg("KeyRunes", runes)

Resize == \E size \in WindowSizes : Handle(WindowSizeMsg(size[1], size[2]), MaxSaves)

PressEsc == Handle(Esc, MaxSaves)

PressEnter == Handle(Enter, MaxSaves)

PressCtrlS == Handle(CtrlS, MaxSaves)

PressCtrlC == Handle(CtrlC, MaxSaves)

PressUp == Handle(Up, MaxSaves)

PressDown == Handle(Down, MaxSaves)

PressBackspace == Handle(Backspace, MaxSaves)

TypeRunes == \E runes \in TypedRunes : Handle(Runes(runes), MaxSaves)

Next ==
    \/ Resize
    \/ PressEsc
    \/ PressEnter
    \/ PressCtrlS
    \/ PressCtrlC
    \/ PressUp
    \/ PressDown
    \/ PressBackspace
    \/ TypeRunes

Spec == Init /\ [][Next]_vars

\* ------------------------------------------------------------------------
\* The session in which nothing is typed: the keys that move, confirm, save
\* and cancel, over more writes of the store
\* ------------------------------------------------------------------------

StoreEsc == Handle(Esc, MaxStoreSaves)

StoreEnter == Handle(Enter, MaxStoreSaves)

StoreCtrlS == Handle(CtrlS, MaxStoreSaves)

StoreUp == Handle(Up, MaxStoreSaves)

StoreDown == Handle(Down, MaxStoreSaves)

NextStore ==
    \/ StoreEsc
    \/ StoreEnter
    \/ StoreCtrlS
    \/ StoreUp
    \/ StoreDown

SpecStore == Init /\ [][NextStore]_vars

\* ------------------------------------------------------------------------
\* The codec: saveSnippets, loadSnippets and generateID applied to given
\* collections
\* ------------------------------------------------------------------------

\* the ids of the given snippets
GivenIDs == {-2, 0, 1, 3}

\* the names and languages, and the codes, of the given snippets: 'a', the
\* byte of the separator and the newline
GivenTexts == StringsUpTo({97, 124}, MaxField)

GivenCodes == StringsUpTo({97, 124, 10}, MaxField)

\* the sequences over ids of length at most n
RECURSIVE IDSeqs(_, _)
IDSeqs(ids, n) ==
    IF n = 0 THEN {<< >>}
    ELSE LET shorter == IDSeqs(ids, n - 1)
         IN  shorter \cup {Append(q, id) : q \in shorter, id \in ids}

\* the given collections: any ids in any order; the snippets of one
\* collection have the same name, language and code
GivenCollections ==
    {[i \in 1..Len(ids) |-> Snippet(ids[i], name, language, code)] :
        ids \in IDSeqs(GivenIDs, MaxGiven) \ {<< >>},
        name \in GivenTexts, language \in GivenTexts, code \in GivenCodes}
    \cup {<< >>}

InitCodec ==
    /\ \E given \in GivenCollections :
            m = [initialModel(AbsentFile) EXCEPT !.snippets = given]
    /\ file = AbsentFile
    /\ loaded = << >>
    /\ pc = "given"
    /\ last = NoLast
    /\ writes = << >>

\* saveSnippets(m.snippets)
CodecSave ==
    /\ pc = "given"
    /\ \E canCreate \in BOOLEAN :
        /\ file' = saveSnippets(m.snippets, file, canCreate)
        /\ writes' = Append(writes, SaveOutcome(canCreate))
    /\ pc' = "saved"
    /\ UNCHANGED <<m, loaded, last>>

\* loadSnippets()
CodecLoad ==
    /\ pc = "saved"
    /\ loaded' = loadSnippets(file)
    /\ pc' = "loaded"
    /\ UNCHANGED <<m, file, last, writes>>

\* m.newSnippet.ID = generateID(m.snippets)
CodecGenerateID ==
    /\ pc = "given"
    /\ m' = [m EXCEPT !.newSnippet.ID = generateID(m.snippets)]
    /\ pc' = "generated"
    /\ UNCHANGED <<file, loaded, last, writes>>

NextCodec ==
    \/ CodecSave
    \/ CodecLoad
    \/ CodecGenerateID

SpecCodec == InitCodec /\ [][NextCodec]_vars

\* ------------------------------------------------------------------------
\* The start of a session with a given store: main calls initialModel, which
\* calls loadSnippets
\* ------------------------------------------------------------------------

\* the fields of the given lines: an id, a text and a code in base64 ("YQo="
\* is "a\n")
GivenLineIDs == {<<55>>, <<45, 50>>, <<97>>, << >>}

GivenLineText == <<97>>

GivenLineCode == <<89, 81, 111, 61>>

\* the given lines: records of 3, 4 and 5 fields, a record with a carriage
\* return at its end, a record whose code is no base64, the empty line and
\* a line without a delimiter
GivenLines ==
    {id \o Delim \o GivenLineText \o Delim \o GivenLineCode :
        id \in GivenLineIDs}
    \cup {id \o Delim \o GivenLineText \o Delim \o << >> \o Delim \o GivenLineCode :
        id \in GivenLineIDs}
    \cup {id \o Delim \o GivenLineText \o Delim \o GivenLineText \o Delim
            \o GivenLineText \o Delim \o GivenLineCode : id \in GivenLineIDs}
    \cup {<<55>> \o Delim \o Delim \o GivenLineText \o Delim \o GivenLineCode \o <<13>>,
          <<55>> \o Delim \o GivenLineText \o Delim \o GivenLineText \o Delim \o <<97>>,
          << >>,
          <<97>>}

\* a text of n bytes 'a'
Filler(n) == [i \in 1..n |-> 97]

\* a record of 4 fields that is n bytes long, with a name that fills it
RecordOfLength(n) ==
    <<55>> \o Delim \o Filler(n - 14) \o Delim \o Delim \o GivenLineCode

\* lines that fill the buffer of the scanner, and one that is a byte short
\* of it
LongLines ==
    {Filler(MaxScanTokenSize), RecordOfLength(MaxScanTokenSize),
     RecordOfLength(MaxScanTokenSize - 1)}

RECURSIVE JoinLines(_)
JoinLines(lines) ==
    IF Len(lines) = 0 THEN << >>
    ELSE Head(lines) \o Newline \o JoinLines(Tail(lines))

\* the given stores: none; up to MaxLines given lines, the last with or
\* without its newline; a record, a long line and a record
GivenFiles ==
    {AbsentFile}
    \cup {FileWith(JoinLines(lines)) :
            lines \in UNION {[1..n -> GivenLines] : n \in 0..MaxLines}}
    \cup {FileWith(SubSeq(JoinLines(lines), 1, Len(JoinLines(lines)) - 1)) :
            lines \in UNION {[1..n -> GivenLines] : n \in 1..MaxLines}}
    \cup {FileWith(JoinLines(<<<<55>> \o Delim \o Delim \o Delim \o GivenLineCode,
                               long,
                               <<45, 50>> \o Delim \o Delim \o Delim>>)) :
            long \in LongLines}

\* before main runs: the store is given and there is no model yet (m is the
\* model of a session without a store)
InitLoad ==
    /\ file \in GivenFiles
    /\ loaded = << >>
    /\ m = initialModel(AbsentFile)
    /\ pc = "stored"
    /\ last = NoLast
    /\ writes = << >>

\* main: tea.NewProgram(initialModel(), ..)
Start ==
    /\ pc = "stored"
    /\ loaded' = loadSnippets(file)
    /\ m' = initialModel(file)
    /\ pc' = "run"
    /\ UNCHANGED <<file, last, writes>>

NextLoad == Start

SpecLoad == InitLoad /\ [][NextLoad]_vars

\* ------------------------------------------------------------------------
\* Properties
\* ------------------------------------------------------------------------

\* the ids of a collection, and the largest number of a non-empty set
IDsOf(snippets) == {snippets[i].ID : i \in 1..Len(snippets)}

Largest(S) == CHOOSE x \in S : \A y \in S : y <= x

\* the step taken handles msg
Handled(msg) == last' = [msg |-> msg, state |-> m.state,
                         currentField |-> m.currentField,
                         selectedItem |-> m.selectedItem,
                         len |-> Len(m.snippets), save |-> last'.save]

\* the step taken is the save of the add wizard: Ctrl+S at step 2
AddSaveStep == Handled(CtrlS) /\ m.state = "add" /\ m.currentField = 2

\* the step taken is a delete confirm with a selection inside the collection
DeleteConfirmStep ==
    /\ Handled(Enter)
    /\ m.state = "delete"
    /\ m.selectedItem >= 0
    /\ m.selectedItem < Len(m.snippets)

\* C1: a collection written by saveSnippets and read back by loadSnippets is
\* the collection that was written, whatever the ids, names, languages and
\* codes of its snippets.
C1_RoundTrip ==
    (pc = "loaded" /\ writes = <<"ok">>) => loaded = m.snippets

\* C2: a 'q' typed in the add state is text of the active field and does
\* not end the session: the session stays in add, at the same step.
C2_QIsTextInAdd ==
    (last.msg = Runes(StrQ) /\ last.state = "add")
        => (pc = "run" /\ m.state = "add" /\ m.currentField = last.currentField)

\* C3: no two snippets of the in-memory collection have the same id, in any
\* state of a session started from any store file.
C3_UniqueIDs ==
    \A i, j \in 1..Len(m.snippets) :
        i # j => m.snippets[i].ID # m.snippets[j].ID

\* C4: the id generateID gives is one plus the largest id of a non-empty
\* collection, and 1 for the empty collection.
C4_MaxPlusOne ==
    pc = "generated" =>
        m.newSnippet.ID = IF Len(m.snippets) = 0 THEN 1
                          ELSE Largest(IDsOf(m.snippets)) + 1

\* C4, amended: the id generateID gives is one plus the largest id of the
\* collection when that id is at least 0, and 1 otherwise (the empty
\* collection, and a collection whose ids are all negative).
C4_MaxPlusOneFromZero ==
    pc = "generated" =>
        m.newSnippet.ID = Largest(IDsOf(m.snippets) \cup {0}) + 1

\* C4: generateID was applied to a collection whose largest id is not the
\* last one
C4_Witness ==
    /\ pc = "generated"
    /\ Len(m.snippets) = 2
    /\ m.snippets[1].ID = 3
    /\ m.snippets[2].ID = 1
    /\ m.newSnippet.ID = 4

\* C5: in the menu all the transient state is reset: the step of the add
\* wizard is 0, the draft is empty, the input and the editor are empty and
\* the selection of the delete list is 0.
C5_MenuIsReset ==
    m.state = "menu" =>
        /\ m.currentField = 0
        /\ m.newSnippet = EmptySnippet
        /\ m.input.value = << >>
        /\ m.textarea.value = << >>
        /\ m.selectedItem = 0

\* C6: Esc in view, delete or add (at any step) moves to the menu in that
\* step, before the state handles the key and before the widgets see it, and
\* leaves the collection and the store as they were: nothing is appended,
\* nothing is written.
C6_EscCancels ==
    [][(Handled(Esc) /\ m.state # "menu") =>
            /\ m'.state = "menu"
            /\ m'.snippets = m.snippets
            /\ file' = file
            /\ writes' = writes
            /\ m'.list = m.list
            /\ pc' = "run"]_vars

\* C6: Esc arrived at step 2 of the add wizard and the session is in the menu
C6_Witness ==
    /\ last.msg = Esc
    /\ last.state = "add"
    /\ last.currentField = 2
    /\ m.state = "menu"
    /\ m.snippets = loaded
    /\ writes = << >>

\* C7: the collection grows only by the save (Ctrl+S) of the add wizard at
\* step 2, by the one snippet of the draft; step 1 is entered only from
\* step 0 and step 2 only from step 1, by the Enter that confirms the name
\* and then the language; the wizard starts at step 0; Ctrl+S at step 0 or 1
\* changes neither the collection nor the store; within the wizard the step
\* stays or goes up by one.
C7_WizardOrder ==
    [][/\ (m'.snippets # m.snippets /\ Len(m'.snippets) >= Len(m.snippets)) =>
            /\ AddSaveStep
            /\ Len(m'.snippets) = Len(m.snippets) + 1
            /\ SubSeq(m'.snippets, 1, Len(m.snippets)) = m.snippets
            /\ m'.snippets[Len(m'.snippets)].Name = m.newSnippet.Name
            /\ m'.snippets[Len(m'.snippets)].Language = m.newSnippet.Language
       /\ (m'.state = "add" /\ m.state # "add") => m'.currentField = 0
       /\ (m'.state = "add" /\ m.state = "add" /\ m'.currentField # m.currentField) =>
            /\ Handled(Enter)
            /\ m'.currentField = m.currentField + 1
            /\ m.currentField = 0 => m'.newSnippet.Name = m.input.value
            /\ m.currentField = 1 =>
                    /\ m'.newSnippet.Language = m.input.value
                    /\ m'.newSnippet.Name = m.newSnippet.Name
       /\ (Handled(CtrlS) /\ m.state = "add" /\ m.currentField < 2) =>
            /\ m'.snippets = m.snippets
            /\ file' = file
            /\ writes' = writes
            /\ m'.state = "add"
            /\ m'.currentField = m.currentField]_vars

\* C7: a wizard went through its steps and its save appended the snippet
C7_Witness ==
    /\ last.msg = CtrlS
    /\ last.state = "add"
    /\ last.currentField = 2
    /\ Len(m.snippets) = last.len + 1
    /\ m.snippets[Len(m.snippets)].Name = <<97>>
    /\ m.snippets[Len(m.snippets)].Language = <<97>>
    /\ m.state = "menu"

\* C8: Enter in the delete state with the selection outside the collection
\* (the empty collection) changes neither the collection nor the store, and
\* the session is back in the menu.
C8_DeleteOutOfRange ==
    [][(/\ Handled(Enter)
        /\ m.state = "delete"
        /\ (m.selectedItem < 0 \/ m.selectedItem > Len(m.snippets) - 1)) =>
            /\ m'.snippets = m.snippets
            /\ file' = file
            /\ writes' = writes
            /\ m'.state = "menu"]_vars

\* C8: a delete was confirmed on the empty collection
C8_Witness ==
    /\ last.msg = Enter
    /\ last.state = "delete"
    /\ last.len = 0
    /\ last.selectedItem = 0
    /\ m.state = "menu"
    /\ m.snippets = << >>

\* C9: the collection and the store change only in the save of the add
\* wizard and in a delete confirm with a valid selection; no other message,
\* in any state, changes either or writes the store.
C9_MutationFrame ==
    [][(m'.snippets # m.snippets \/ file' # file \/ writes' # writes) =>
            (AddSaveStep \/ DeleteConfirmStep)]_vars

\* C9: text was typed into the name of the add wizard, with the collection
\* and the store as they were at startup
C9_Witness ==
    /\ last.msg = Runes(<<97>>)
    /\ last.state = "add"
    /\ m.input.value = <<97>>
    /\ Len(m.snippets) = 2
    /\ m.snippets = loaded
    /\ file = GoodFile

\* C10: a save (of an add or of a delete confirm) whose os.Create fails
\* keeps the change of the collection, leaves the store as it was and the
\* session goes on in the menu; a save whose os.Create succeeds leaves in the
\* store the records of the whole collection, so also the changes whose
\* write failed before.
C10_UnwritableStore ==
    [][/\ last'.save = "failed" /\ writes' # writes =>
            /\ file' = file
            /\ m.state = "add" =>
                    /\ Len(m'.snippets) = Len(m.snippets) + 1
                    /\ SubSeq(m'.snippets, 1, Len(m.snippets)) = m.snippets
            /\ m.state = "delete" =>
                    m'.snippets = RemoveAt(m.snippets, m.selectedItem)
            /\ m'.state = "menu"
            /\ pc' = "run"
       /\ last'.save = "ok" /\ writes' # writes =>
            file' = FileWith(FormatRecords(m'.snippets))]_vars

\* C10: a write failed, the next one succeeded, and the store holds the
\* collection with both changes
C10_Witness ==
    /\ writes = <<"failed", "ok">>
    /\ last.save = "ok"
    /\ Len(m.snippets) = 2
    /\ m.snippets # loaded
    /\ file = FileWith(FormatRecords(m.snippets))
    /\ m.state = "menu"


\* the text lines of a store, each without its newline
RECURSIVE TextLines(_)
TextLines(data) ==
    IF Len(data) = 0 THEN << >>
    ELSE LET nl == IndexOf(data, Newline)
         IN  IF nl = 0 THEN <<data>>
             ELSE <<SubSeq(data, 1, nl - 1)>> \o TextLines(Drop(data, nl + 1))

\* the record of a snippet: its id in decimal, its name, its language and
\* its code in base64, separated by the delimiter
RecordOf(s) ==
    FormatInt(s.ID) \o Delim \o s.Name \o Delim \o s.Language \o Delim
        \o EncodeToString(s.Code)

\* C11: after an add save or a delete confirm whose write succeeded the
\* store holds one line per snippet of the collection, in the order of the
\* collection, each the record of its snippet, and nothing else; after an
\* add to an empty collection the one snippet has the id 1 and the store has
\* one record.
C11_WholesaleRewrite ==
    last.save = "ok" =>
        LET lines == TextLines(file.data)
        IN  /\ file.exists
            /\ Len(lines) = Len(m.snippets)
            /\ \A i \in 1..Len(lines) : lines[i] = RecordOf(m.snippets[i])
            /\ (last.state = "add" /\ last.len = 0) =>
                   /\ Len(lines) = 1
                   /\ m.snippets[1].ID = 1

\* an add to the empty collection has written the one record of id 1
C11_Witness ==
    /\ last.save = "ok"
    /\ last.state = "add"
    /\ last.len = 0
    /\ m.snippets[1].ID = 1
    /\ Len(TextLines(file.data)) = 1


\* C12 as stated: in every state, the state loaded at startup included, every
\* snippet of the collection has an id of at least 1.
C12_IDsAtLeastOne == \A i \in 1..Len(m.snippets) : m.snippets[i].ID >= 1

\* C12: every snippet appended by the save of the add wizard has an id of at
\* least 1, and every snippet of the collection has one in every state of a
\* session whose store held ids of at least 1 only at startup.
C12_AddedIDsAtLeastOne ==
    /\ (last.state = "add" /\ last.save # "none") =>
           m.snippets[Len(m.snippets)].ID >= 1
    /\ (\A i \in 1..Len(loaded) : loaded[i].ID >= 1) =>
           \A i \in 1..Len(m.snippets) : m.snippets[i].ID >= 1

\* a snippet was added to a collection loaded with an id of 0
C12_Witness ==
    /\ last.state = "add"
    /\ last.save # "none"
    /\ \E i \in 1..Len(loaded) : loaded[i].ID = 0
    /\ m.snippets[1].ID = 0
    /\ m.snippets[Len(m.snippets)].ID = 1


\* s without its element at index i, indices counted from 0
Without(s, i) == [j \in 1..(Len(s) - 1) |-> IF j <= i THEN s[j] ELSE s[j + 1]]

\* the store holds the records of the collection, and nothing else
Persisted(f, snippets) ==
    /\ f.exists
    /\ Len(TextLines(f.data)) = Len(snippets)
    /\ \A i \in 1..Len(snippets) : TextLines(f.data)[i] = RecordOf(snippets[i])

C14_SelectionClamp ==
    m.state = "delete" =>
        /\ 0 <= m.selectedItem
        /\ m.selectedItem <= IF Len(m.snippets) = 0 THEN 0 ELSE Len(m.snippets) - 1

\* the down key was pressed with the last of two snippets selected, and the
\* selection stayed
C14_Witness ==
    /\ m.state = "delete"
    /\ last.msg = Down
    /\ last.state = "delete"
    /\ last.selectedItem = 1
    /\ Len(m.snippets) = 2
    /\ m.selectedItem = 1


\* the session has written the store twice: a delete confirm that removed
\* the k-th snippet of the collection loaded at startup, then the save of
\* the add wizard, which is the step just taken
DeletedThenAdded(k) ==
    /\ Len(writes) = 2
    /\ last.state = "add"
    /\ last.save # "none"
    /\ last.len = Len(loaded) - 1
    /\ Len(m.snippets) = Len(loaded)
    /\ SubSeq(m.snippets, 1, last.len) = Without(loaded, k - 1)

\* C15 as stated: when the snippet holding the maximum id is deleted and a
\* snippet is then added, the new snippet has the id of the deleted one
\* (stated for collections of distinct ids of at least 1).
C15_IDReuse ==
    \A k \in 1..Len(loaded) :
        (/\ DeletedThenAdded(k)
         /\ Cardinality(IDsOf(loaded)) = Len(loaded)
         /\ \A i \in 1..Len(loaded) : loaded[i].ID >= 1
         /\ loaded[k].ID = Largest(IDsOf(loaded))) =>
            m.snippets[Len(m.snippets)].ID = loaded[k].ID

\* C15: when a snippet is deleted and a snippet is then added, the new
\* snippet has one more than the largest id left after the deletion, or 1
\* when no id above 0 is left: it has the id of the deleted snippet when
\* that id was one more than the largest id left.
C15_IDReuseOfNext ==
    \A k \in 1..Len(loaded) :
        DeletedThenAdded(k) =>
            LET freed == loaded[k].ID
                next  == Largest(IDsOf(Without(loaded, k - 1)) \cup {0}) + 1
                new   == m.snippets[Len(m.snippets)].ID
            IN  /\ new = next
                /\ freed = next => new = freed
                /\ freed # next => new # freed

\* of the ids 1 and 2 the snippet of id 2 was deleted, and the snippet added
\* after it, another snippet, has the id 2
C15_Witness ==
    /\ DeletedThenAdded(2)
    /\ IDsOf(loaded) = {1, 2}
    /\ loaded[2].ID = 2
    /\ m.snippets[2].ID = 2
    /\ m.snippets[2] # loaded[2]


\* the lines of a text, each without its newline and without a carriage
\* return before it
LinesOf(data) ==
    LET lines == TextLines(data)
    IN  [i \in 1..Len(lines) |-> DropCR(lines[i])]

\* the line splits on the delimiter into exactly 4 fields
IsRecordLine(line) == Len(Split(line, Delim)) = 4

\* the text is an integer: an optional sign and then decimal digits
IsInteger(s) ==
    LET ds == IF Len(s) > 0 /\ s[1] \in {43, 45} THEN Drop(s, 2) ELSE s
    IN  Len(ds) > 0 /\ \A i \in 1..Len(ds) : IsDigit(ds[i])

\* the snippet of a record line: an id of 0 for a first field that is no
\* integer
SnippetOfLine(line) ==
    LET parts == Split(line, Delim)
    IN  Snippet(IF IsInteger(parts[1]) THEN Atoi(parts[1]) ELSE 0,
                parts[2], parts[3], DecodeString(parts[4]))

\* C16: the collection a session starts with holds, in the order of the
\* store, one snippet for each line of the store that splits into exactly 4
\* fields and none for any other line, with the id 0 for a first field that
\* is no integer; without a store the collection is empty; the session
\* starts in the menu either way.
C16_LoadTolerance ==
    pc = "run" =>
        LET records == IF file.exists
                       THEN SelectSeq(LinesOf(file.data), IsRecordLine)
                       ELSE << >>
        IN  /\ Len(loaded) = Len(records)
            /\ \A i \in 1..Len(records) : loaded[i] = SnippetOfLine(records[i])
            /\ m.snippets = loaded
            /\ m.state = "menu"


\* nothing of an earlier run of the wizard is in a later one: the wizard is
\* entered at step 0 with the draft, the input and the editor empty; they
\* are empty outside the wizard; the editor is empty before step 2 and the
\* draft before the first confirmation; the name of the draft changes only
\* to the input confirmed at step 0 and its language only to the input
\* confirmed at step 1; the save appends the draft with the text of the
\* editor for its code
NoLeakage ==
    /\ (m.state = "menu" /\ m'.state = "add") =>
           /\ Handled(Enter)
           /\ m'.currentField = 0
           /\ m'.newSnippet = EmptySnippet
           /\ m'.input.value = << >>
           /\ m'.textarea.value = << >>
    /\ m'.state # "add" =>
           /\ m'.newSnippet = EmptySnippet
           /\ m'.input.value = << >>
           /\ m'.textarea.value = << >>
    /\ (m'.state = "add" /\ m'.currentField < 2) => m'.textarea.value = << >>
    /\ (m'.state = "add" /\ m'.currentField = 0) => m'.newSnippet = EmptySnippet
    /\ (m.state = "add" /\ m'.state = "add") =>
           /\ m'.newSnippet.Name # m.newSnippet.Name =>
                  /\ Handled(Enter)
                  /\ m.currentField = 0
                  /\ m'.newSnippet.Name = m.input.value
           /\ m'.newSnippet.Language # m.newSnippet.Language =>
                  /\ Handled(Enter)
                  /\ m.currentField = 1
                  /\ m'.newSnippet.Language = m.input.value
           /\ m'.newSnippet.Code = << >>
    /\ AddSaveStep =>
           /\ m'.snippets[Len(m'.snippets)].Name = m.newSnippet.Name
           /\ m'.snippets[Len(m'.snippets)].Language = m.newSnippet.Language
           /\ m'.snippets[Len(m'.snippets)].Code = m.textarea.value

\* the code of the snippet is what is entered at step 2: the editor is
\* empty when step 2 begins
CodeFromStepTwo ==
    (m.state = "add" /\ m.currentField < 2 /\ m'.state = "add" /\ m'.currentField = 2) =>
        m'.textarea.value = << >>

\* C17: the add state is entered from the menu at step 0 with the draft, the
\* input and the editor empty, and the snippet the save appends has the name
\* and the language confirmed and the code entered in that run of the
\* wizard, and nothing of an earlier run.
C17_NoDraftLeakage == [][NoLeakage /\ CodeFromStepTwo]_vars


\* C18: the Enter that confirms the language at step 1 does not reach the
\* code editor: the editor is as it was, and empty, when step 2 begins.
C18_EnterConsumed ==
    [][(Handled(Enter) /\ m.state = "add" /\ m.currentField = 1) =>
           /\ m'.currentField = 2
           /\ m'.textarea.value = m.textarea.value
           /\ m'.textarea.value = << >>]_vars

\* C19: the selected choice of the menu changes only by the up and down keys
\* received in the menu state; no key received in view, add or delete
\* changes it.
C19_MenuSelectionFrame ==
    [][m'.list # m.list =>
           /\ m.state = "menu"
           /\ Handled(Up) \/ Handled(Down)]_vars

====
